---- MODULE Spec2Model ----
(***************************************************************************)
(* The Cogworks bot status tracker of ninsys-api                           *)
(* (src/routes/cogworks/cogworks.ts): the in-memory bot data store, the   *)
(* 30 s status cache, the timer-driven health probe and the authenticated  *)
(* ingestion routes, as one state machine.  One action per route handler,  *)
(* timer callback or resumption of an awaited HTTP request.                *)
(***************************************************************************)
EXTENDS Integers, Sequences, FiniteSets, TLC

(***************************************************************************)
(* Program constants (milliseconds).                                       *)
(***************************************************************************)
HEALTH_CHECK_INTERVAL == 30000
OFFLINE_TIMEOUT == 600000
CACHE_TTL == 30000
BearerPrefixLen == 7
BytesPerMB == 1048576

(***************************************************************************)
(* Bounds of the model.                                                    *)
(*   BootTime     Date.now() when the module is loaded (positive, so that  *)
(*                a real timestamp differs from the epoch sentinel)        *)
(*   MaxHalfSteps how many half-TTL clock steps a behaviour may take       *)
(*   MaxInFlight  how many checkBotHealth invocations may be suspended     *)
(*                at an await at the same time                             *)
(***************************************************************************)
BootTime == 1000
MaxHalfSteps == 2
MaxInFlight == 1

(***************************************************************************)
(* JavaScript values.  A value carries its type tag, so that a missing     *)
(* field (undefined), a falsy value and an ill-typed JSON value can be     *)
(* told apart the way the handlers' tests (!x, x === undefined, x ?? d,    *)
(* x || d) tell them apart.                                                *)
(***************************************************************************)
Undefined == [t |-> "undefined"]
Null == [t |-> "null"]
NaN == [t |-> "NaN"]
Num(n) == [t |-> "number", n |-> n]
Str(s) == [t |-> "string", s |-> s]
Bool(b) == [t |-> "boolean", b |-> b]
\* A JSON object both of whose "valueOf" and "toString" members are not
\* callable, e.g. {"valueOf":1,"toString":1}: converting it to a primitive
\* (arithmetic, template literal) throws a TypeError.
Unconvertible == [t |-> "object"]

\* JavaScript ToBoolean.
Truthy(v) ==
  CASE v.t = "undefined" -> FALSE
    [] v.t = "null" -> FALSE
    [] v.t = "NaN" -> FALSE
    [] v.t = "number" -> v.n # 0
    [] v.t = "string" -> v.s # ""
    [] v.t = "boolean" -> v.b
    [] OTHER -> TRUE

\* x ?? d
Nullish(v, d) == IF v.t \in {"undefined", "null"} THEN d ELSE v

\* Does ToPrimitive(v) throw (v used in arithmetic or in a template literal)?
ToPrimitiveThrows(v) == v.t = "object"

(***************************************************************************)
(* Date.prototype.toISOString for the dates of the model (all in January   *)
(* 1970): "1970-01-DDTHH:MM:SS.mmmZ".                                      *)
(***************************************************************************)
Pad2(n) == IF n < 10 THEN "0" \o ToString(n) ELSE ToString(n)

Pad3(n) == IF n < 10 THEN "00" \o ToString(n)
           ELSE IF n < 100 THEN "0" \o ToString(n) ELSE ToString(n)

toISOString(ms) ==
  "1970-01-" \o Pad2(1 + (ms \div 86400000)) \o "T"
    \o Pad2((ms \div 3600000) % 24) \o ":"
    \o Pad2((ms \div 60000) % 60) \o ":"
    \o Pad2((ms \div 1000) % 60) \o "."
    \o Pad3(ms % 1000) \o "Z"

(***************************************************************************)
(* Math.round(bytes / 1024 / 1024 * 100) / 100, as an integer number of    *)
(* hundredths of a megabyte (Math.round rounds halves up).  The quotient   *)
(* is split so that no intermediate value leaves 32 bits.                  *)
(***************************************************************************)
\* The conversion truncating to hundredths instead of rounding.
RoundHundredthsTruncating(bytes) ==
  (bytes \div BytesPerMB) * 100 + (((bytes % BytesPerMB) * 100) \div BytesPerMB)

RoundHundredths(bytes) ==
  (bytes \div BytesPerMB) * 100
    + (((bytes % BytesPerMB) * 200 + BytesPerMB) \div (2 * BytesPerMB))

memoryUsageMB(v) ==
  CASE v.t = "number" -> Num(RoundHundredths(v.n))
    [] v.t = "null" -> Num(0)
    [] OTHER -> NaN

(***************************************************************************)
(* Request inputs.                                                         *)
(***************************************************************************)
\* The literal 'Bearer ' of verifyBotToken, as its characters.
BearerPrefix == <<"B", "e", "a", "r", "e", "r", " ">>

\* process.env.COGWORKS_BOT_TOKEN (a required environment variable).
COGWORKS_BOT_TOKEN == <<"g", "o", "o", "d">>

\* The Authorization header of a request: absent, or a string.
NoHeader == [present |-> FALSE, chars |-> <<>>]
Header(chars) == [present |-> TRUE, chars |-> chars]

GoodHeader == Header(BearerPrefix \o COGWORKS_BOT_TOKEN)

Headers ==
  { NoHeader,
    GoodHeader,
    Header(BearerPrefix \o <<"g", "o", "o", "f">>),
    Header(BearerPrefix \o <<"g", "o", "o", "d", "s">>),
    Header(<<"B", "e", "a", "r", "e", "r">> \o COGWORKS_BOT_TOKEN),
    Header(<<"b", "e", "a", "r", "e", "r", " ">> \o COGWORKS_BOT_TOKEN) }

\* The payloads of the test suites, and the ways a field can be missing.
validPayload ==
  [ botId |-> Str("123456789"), username |-> Str("TestBot"),
    guilds |-> Num(5), users |-> Num(100), uptime |-> Num(10),
    memoryUsage |-> Num(52428800), version |-> Str("2.0.0"),
    environment |-> Str("development") ]

\* Only the validated fields; guilds is 0 (present, but falsy).
minimalPayload ==
  [ botId |-> Str("123456789"), username |-> Str("TestBot"),
    guilds |-> Num(0), users |-> Undefined, uptime |-> Undefined,
    memoryUsage |-> Undefined, version |-> Undefined,
    environment |-> Undefined ]

Payloads ==
  { validPayload,
    minimalPayload,
    [validPayload EXCEPT !.botId = Undefined],
    [validPayload EXCEPT !.username = Undefined],
    [validPayload EXCEPT !.guilds = Undefined] }

\* The requests the ingestion routes are called with: every payload under
\* the right token, and every header with a valid and an invalid payload.
IngestRequests ==
  { [authorization |-> GoodHeader, body |-> p] : p \in Payloads }
    \cup { [authorization |-> h, body |-> p] :
             h \in Headers, p \in {validPayload, [validPayload EXCEPT !.botId = Undefined]} }

\* A payload that is valid JSON but not a BotRegistrationPayload.
illTypedPayload == [validPayload EXCEPT !.memoryUsage = Unconvertible]

\* What an axios.get of a health endpoint can produce: a rejection (network
\* error, timeout, non-2xx status) or a 2xx response with its data.
Rejected == [ok |-> FALSE, data |-> [ready |-> Undefined, alive |-> Undefined]]
Resolved(r, a) == [ok |-> TRUE, data |-> [ready |-> r, alive |-> a]]

ReadyOutcomes ==
  { Rejected, Resolved(Bool(TRUE), Undefined), Resolved(Bool(FALSE), Undefined),
    Resolved(Undefined, Undefined) }

LiveOutcomes ==
  { Rejected, Resolved(Undefined, Bool(TRUE)), Resolved(Undefined, Bool(FALSE)),
    Resolved(Undefined, Undefined) }

(***************************************************************************)
(* State.                                                                  *)
(***************************************************************************)
VARIABLES
  now,                 \* Date.now()
  mounted,             \* has createCogworksRoutes returned a router?
  botData,             \* the in-memory bot data store
  cachedStatus,        \* the cached public status, or null
  cacheTimestamp,      \* Date.now() when cachedStatus was stored
  healthCheckInterval, \* the module's timer handle, or null
  timers,              \* the interval timers the runtime holds
  inflight,            \* the checkBotHealth invocations suspended at an await
  bot,                 \* what the bot's two health endpoints may answer
  res                  \* the response sent by the last step, if any

vars == <<now, mounted, botData, cachedStatus, cacheTimestamp,
          healthCheckInterval, timers, inflight, bot, res>>

Date(ms) == [t |-> "Date", ms |-> ms]
Timeout(id) == [t |-> "Timeout", id |-> id]

\* A response: its status code and its JSON body.  The bodies of the
\* ingestion routes also carry `timestamp: new Date().toISOString()`, which
\* no handler reads back; it is left out of the body.
NoResponse == [code |-> 0, body |-> Undefined]
Response(code, body) == [code |-> code, body |-> body]

\* The monitored bot: the outcomes its /health/ready and /health/live
\* endpoints may produce.  AnyBot answers anything, a bot of FixedBots
\* gives one answer per endpoint (the persistent mocks of the tests).
AnyBot == [ready |-> ReadyOutcomes, live |-> LiveOutcomes]
FixedBots == { [ready |-> {r}, live |-> {l}] : r \in ReadyOutcomes, l \in LiveOutcomes }
\* A bot that reports ready, and whose liveness request succeeds or fails.
ReadyBot ==
  [ ready |-> {Resolved(Bool(TRUE), Undefined)},
    live |-> {Rejected, Resolved(Undefined, Bool(TRUE))} ]

\* The module has been loaded.
Loaded ==
  /\ now = BootTime
  /\ mounted = FALSE
  /\ botData =
       [ botId |-> Null, username |-> Null,
         guilds |-> Num(0), users |-> Num(0), uptime |-> Num(0),
         memoryUsage |-> Num(0), version |-> Null, environment |-> Null,
         lastUpdate |-> Null,
         healthStatus |-> [ready |-> FALSE, alive |-> FALSE, lastCheck |-> Null] ]
  /\ cachedStatus = Null
  /\ cacheTimestamp = 0
  /\ healthCheckInterval = Null
  /\ timers = {}
  /\ inflight = <<>>
  /\ res = NoResponse

Init == Loaded /\ bot = AnyBot

InitProbe == Loaded /\ bot \in FixedBots

InitIngress == Loaded /\ bot = ReadyBot

(***************************************************************************)
(* Helpers of the module.                                                  *)
(***************************************************************************)
\* isBotOnline taking an absent lastUpdate for the epoch instead of
\* returning false.
isBotOnlineFromEpoch(bd, t) ==
  LET since == IF ~Truthy(bd.lastUpdate) THEN 0 ELSE bd.lastUpdate.ms
  IN  (t - since) < OFFLINE_TIMEOUT

\* isBotOnline with the comparison `<=`: a bot silent for exactly the timeout
\* would still be online.
isBotOnlineInclusive(bd, t) ==
  IF ~Truthy(bd.lastUpdate) THEN FALSE
  ELSE (t - bd.lastUpdate.ms) <= OFFLINE_TIMEOUT

\* isBotOnline, reading the store bd at time t.
isBotOnline(bd, t) ==
  IF ~Truthy(bd.lastUpdate) THEN FALSE
  ELSE (t - bd.lastUpdate.ms) < OFFLINE_TIMEOUT

\* verifyBotToken comparing only the first characters of the token with the
\* secret: a token that extends the secret would pass.
verifyBotTokenByPrefix(authHeader) ==
  IF \/ ~authHeader.present
     \/ Len(authHeader.chars) < Len(BearerPrefix)
     \/ SubSeq(authHeader.chars, 1, Len(BearerPrefix)) # BearerPrefix
  THEN FALSE
  ELSE LET token == SubSeq(authHeader.chars, BearerPrefixLen + 1,
                           Len(authHeader.chars))
       IN  /\ Len(token) >= Len(COGWORKS_BOT_TOKEN)
           /\ SubSeq(token, 1, Len(COGWORKS_BOT_TOKEN)) = COGWORKS_BOT_TOKEN

\* verifyBotToken, on the request's Authorization header.
verifyBotToken(authHeader) ==
  IF \/ ~authHeader.present
     \/ authHeader.chars = <<>>
     \/ Len(authHeader.chars) < Len(BearerPrefix)
     \/ SubSeq(authHeader.chars, 1, Len(BearerPrefix)) # BearerPrefix
  THEN FALSE
  ELSE LET token == SubSeq(authHeader.chars, BearerPrefixLen + 1,
                           Len(authHeader.chars))
       IN  token = COGWORKS_BOT_TOKEN

\* What requireBotAuth responds when verifyBotToken fails.
Unauthorized ==
  Response(401, [success |-> FALSE, error |-> "Unauthorized: Invalid bot token"])

\* The validation of POST /register without its test of username.
registerPayloadInvalidSkippingUsername(payload) ==
  ~Truthy(payload.botId) \/ payload.guilds = Undefined

\* The validations of POST /register and PUT /stats.
registerPayloadInvalid(payload) ==
  ~Truthy(payload.botId) \/ ~Truthy(payload.username) \/ payload.guilds = Undefined

statsPayloadInvalid(payload) ==
  ~Truthy(payload.botId) \/ payload.guilds = Undefined

\* The assignments of the ingestion handlers, keeping the stored username
\* and version when the payload carries none.
storeBotDataMerging(bd, payload, t) ==
  [ bd EXCEPT !.botId = payload.botId,
              !.username = Nullish(payload.username, bd.username),
              !.guilds = payload.guilds, !.users = payload.users,
              !.uptime = payload.uptime, !.memoryUsage = payload.memoryUsage,
              !.version = Nullish(payload.version, bd.version),
              !.environment = payload.environment,
              !.lastUpdate = Date(t) ]

\* The eight assignments and the new Date() of both ingestion handlers.
storeBotData(bd, payload, t) ==
  [ bd EXCEPT !.botId = payload.botId, !.username = payload.username,
              !.guilds = payload.guilds, !.users = payload.users,
              !.uptime = payload.uptime, !.memoryUsage = payload.memoryUsage,
              !.version = payload.version, !.environment = payload.environment,
              !.lastUpdate = Date(t) ]

\* Does building the status object throw?  (botData.memoryUsage / 1024)
buildStatusThrows(bd) == ToPrimitiveThrows(bd.memoryUsage)

\* The fresh status object of GET /status.
buildStatus(bd, t) ==
  [ online |-> isBotOnline(bd, t),
    ready |-> bd.healthStatus.ready,
    guilds |-> bd.guilds,
    users |-> bd.users,
    uptime |-> bd.uptime,
    memoryUsageMB |-> memoryUsageMB(bd.memoryUsage),
    version |-> IF Truthy(bd.version) THEN bd.version ELSE Str("unknown"),
    lastUpdate |-> IF Truthy(bd.lastUpdate) THEN toISOString(bd.lastUpdate.ms)
                   ELSE toISOString(0),
    healthStatus |->
      [ ready |-> bd.healthStatus.ready,
        alive |-> bd.healthStatus.alive,
        lastCheck |-> IF Truthy(bd.healthStatus.lastCheck)
                      THEN toISOString(bd.healthStatus.lastCheck.ms)
                      ELSE toISOString(0) ] ]

\* The cache test with the comparison `<=`: an entry aged exactly one TTL
\* would still be served.
cacheValidInclusive(cs, cts, t) == cs # Null /\ (t - cts) <= CACHE_TTL

\* Is the cached response still valid at time t?  (cs is null or an object)
cacheValid(cs, cts, t) == cs # Null /\ (t - cts) < CACHE_TTL

\* What GET /status responds in a state, and the cache it leaves.
statusResponse(bd, cs, cts, t) ==
  IF cacheValid(cs, cts, t) THEN Response(200, cs)
  ELSE IF buildStatusThrows(bd)
       THEN Response(500, [online |-> FALSE, error |-> "Status check failed"])
       ELSE Response(200, buildStatus(bd, t))

\* Remove element i of a sequence.
RemoveAt(seq, i) == SubSeq(seq, 1, i - 1) \o SubSeq(seq, i + 1, Len(seq))

\* A call of checkBotHealth runs to its first await: the readiness request
\* is sent.  caller is "timer" (setInterval or the initial check) or
\* "register"; closure holds what the caller's continuation still reads.
checkBotHealthCall(caller, closure) ==
  /\ Len(inflight) < MaxInFlight
  /\ inflight' = Append(inflight,
       [pc |-> "ready", readyData |-> Undefined, caller |-> caller, closure |-> closure])

\* The health record written on success and in the catch block.
healthOnSuccess(readyData, aliveData, t) ==
  [ ready |-> Nullish(readyData, Bool(FALSE)).b,
    alive |-> Nullish(aliveData, Bool(FALSE)).b,
    lastCheck |-> Date(t) ]

healthOnFailure(t) == [ready |-> FALSE, alive |-> FALSE, lastCheck |-> Date(t)]

\* What runs when the promise of checkBotHealth settles: nothing for the
\* timer; for POST /register the rest of the handler (log, then respond).
afterCheckBotHealth(call) ==
  IF call.caller = "register"
  THEN IF ToPrimitiveThrows(call.closure.username) \/ ToPrimitiveThrows(call.closure.botId)
       THEN Response(500, [success |-> FALSE, error |-> "Failed to register bot"])
       ELSE Response(200, [success |-> TRUE, message |-> "Bot registered successfully"])
  ELSE NoResponse

(***************************************************************************)
(* Actions.                                                                *)
(***************************************************************************)
\* createCogworksRoutes without its test of the handle: every call starts
\* an interval and an initial check.
createCogworksRoutesAlwaysStarting ==
  /\ LET id == CHOOSE i \in 1..(Cardinality(timers) + 1) :
                  \A tm \in timers : tm.id # i
     IN  /\ timers' = timers \cup {[id |-> id, due |-> now + HEALTH_CHECK_INTERVAL]}
         /\ healthCheckInterval' = Timeout(id)
         /\ checkBotHealthCall("timer", Undefined)
  /\ mounted' = TRUE
  /\ res' = NoResponse
  /\ UNCHANGED <<bot, now, botData, cachedStatus, cacheTimestamp>>

\* createCogworksRoutes without its initial call of checkBotHealth.
createCogworksRoutesWithoutInitialCheck ==
  /\ IF ~Truthy(healthCheckInterval)
     THEN LET id == CHOOSE i \in 1..(Cardinality(timers) + 1) :
                      \A tm \in timers : tm.id # i
          IN  /\ timers' = timers \cup {[id |-> id, due |-> now + HEALTH_CHECK_INTERVAL]}
              /\ healthCheckInterval' = Timeout(id)
     ELSE UNCHANGED <<timers, healthCheckInterval>>
  /\ mounted' = TRUE
  /\ res' = NoResponse
  /\ UNCHANGED <<bot, now, botData, cachedStatus, cacheTimestamp, inflight>>

\* createCogworksRoutes: start the interval and the initial check unless a
\* timer handle is held, then build and return the router.
createCogworksRoutes ==
  /\ IF ~Truthy(healthCheckInterval)
     THEN LET id == CHOOSE i \in 1..(Cardinality(timers) + 1) :
                      \A tm \in timers : tm.id # i
          IN  /\ timers' = timers \cup {[id |-> id, due |-> now + HEALTH_CHECK_INTERVAL]}
              /\ healthCheckInterval' = Timeout(id)
              /\ checkBotHealthCall("timer", Undefined)
     ELSE UNCHANGED <<timers, healthCheckInterval, inflight>>
  /\ mounted' = TRUE
  /\ res' = NoResponse
  /\ UNCHANGED <<bot, now, botData, cachedStatus, cacheTimestamp>>

\* stopHealthCheck dropping the handle without clearInterval.
stopHealthCheckForgettingTimer ==
  /\ IF Truthy(healthCheckInterval)
     THEN healthCheckInterval' = Null
     ELSE UNCHANGED healthCheckInterval
  /\ res' = NoResponse
  /\ UNCHANGED <<bot, now, mounted, botData, cachedStatus, cacheTimestamp,
                 inflight, timers>>

\* stopHealthCheck
stopHealthCheck ==
  /\ IF Truthy(healthCheckInterval)
     THEN /\ timers' = {tm \in timers : tm.id # healthCheckInterval.id}
          /\ healthCheckInterval' = Null
     ELSE UNCHANGED <<timers, healthCheckInterval>>
  /\ res' = NoResponse
  /\ UNCHANGED <<bot, now, mounted, botData, cachedStatus, cacheTimestamp, inflight>>

\* A timer that runs its callback once and is not re-armed (setTimeout in
\* place of setInterval).
timerFiresOnce(tm) ==
  /\ tm \in timers
  /\ now >= tm.due
  /\ timers' = timers \ {tm}
  /\ checkBotHealthCall("timer", Undefined)
  /\ res' = NoResponse
  /\ UNCHANGED <<bot, now, mounted, botData, cachedStatus, cacheTimestamp, healthCheckInterval>>

\* An interval timer of the runtime fires: checkBotHealth is called, and the
\* timer is re-armed one interval after this run.
timerFires(tm) ==
  /\ tm \in timers
  /\ now >= tm.due
  /\ timers' = (timers \ {tm}) \cup {[tm EXCEPT !.due = now + HEALTH_CHECK_INTERVAL]}
  /\ checkBotHealthCall("timer", Undefined)
  /\ res' = NoResponse
  /\ UNCHANGED <<bot, now, mounted, botData, cachedStatus, cacheTimestamp, healthCheckInterval>>

\* checkBotHealth resumes from `await axios.get(.../health/ready)`.
readyResponse(i, outcome) ==
  /\ i \in 1..Len(inflight)
  /\ outcome \in bot.ready
  /\ inflight[i].pc = "ready"
  /\ IF outcome.ok
     THEN /\ inflight' = [inflight EXCEPT ![i].pc = "live",
                                          ![i].readyData = outcome.data.ready]
          /\ res' = NoResponse
          /\ UNCHANGED botData
     ELSE /\ botData' = [botData EXCEPT !.healthStatus = healthOnFailure(now)]
          /\ inflight' = RemoveAt(inflight, i)
          /\ res' = afterCheckBotHealth(inflight[i])
  /\ UNCHANGED <<bot, now, mounted, cachedStatus, cacheTimestamp, healthCheckInterval, timers>>

\* checkBotHealth resumes from `await axios.get(.../health/live)`.
liveResponse(i, outcome) ==
  /\ i \in 1..Len(inflight)
  /\ outcome \in bot.live
  /\ inflight[i].pc = "live"
  /\ botData' = [botData EXCEPT !.healthStatus =
       IF outcome.ok
       THEN healthOnSuccess(inflight[i].readyData, outcome.data.alive, now)
       ELSE healthOnFailure(now)]
  /\ inflight' = RemoveAt(inflight, i)
  /\ res' = afterCheckBotHealth(inflight[i])
  /\ UNCHANGED <<bot, now, mounted, cachedStatus, cacheTimestamp, healthCheckInterval, timers>>

\* POST /register refusing a bot once one is on record.
registerRefusingKnownBot(authHeader, payload) ==
  /\ mounted
  /\ IF ~verifyBotToken(authHeader)
     THEN /\ res' = Unauthorized
          /\ UNCHANGED <<botData, cachedStatus, inflight>>
     ELSE IF registerPayloadInvalid(payload) \/ Truthy(botData.botId)
     THEN /\ res' = Response(400,
                      [success |-> FALSE, error |-> "Invalid registration payload"])
          /\ UNCHANGED <<botData, cachedStatus, inflight>>
     ELSE /\ botData' = storeBotData(botData, payload, now)
          /\ cachedStatus' = Null
          /\ checkBotHealthCall("register",
                 [username |-> payload.username, botId |-> payload.botId])
          /\ res' = NoResponse
  /\ UNCHANGED <<bot, now, mounted, cacheTimestamp, healthCheckInterval, timers>>

\* POST /register answering at once, without the health check it awaits.
registerAnsweringAtOnce(authHeader, payload) ==
  /\ mounted
  /\ IF ~verifyBotToken(authHeader)
     THEN /\ res' = Unauthorized
          /\ UNCHANGED <<botData, cachedStatus>>
     ELSE IF registerPayloadInvalid(payload)
     THEN /\ res' = Response(400,
                      [success |-> FALSE, error |-> "Invalid registration payload"])
          /\ UNCHANGED <<botData, cachedStatus>>
     ELSE /\ botData' = storeBotData(botData, payload, now)
          /\ cachedStatus' = Null
          /\ res' = Response(200,
                      [success |-> TRUE, message |-> "Bot registered successfully"])
  /\ UNCHANGED <<bot, now, mounted, cacheTimestamp, healthCheckInterval, timers, inflight>>

\* POST /register, up to `await checkBotHealth()`.
register(authHeader, payload) ==
  /\ mounted
  /\ IF ~verifyBotToken(authHeader)
     THEN /\ res' = Unauthorized
          /\ UNCHANGED <<botData, cachedStatus, inflight>>
     ELSE IF registerPayloadInvalid(payload)
     THEN /\ res' = Response(400,
                      [success |-> FALSE, error |-> "Invalid registration payload"])
          /\ UNCHANGED <<botData, cachedStatus, inflight>>
     ELSE /\ botData' = storeBotData(botData, payload, now)
          /\ cachedStatus' = Null
          /\ checkBotHealthCall("register",
                 [username |-> payload.username, botId |-> payload.botId])
          /\ res' = NoResponse
  /\ UNCHANGED <<bot, now, mounted, cacheTimestamp, healthCheckInterval, timers>>

\* PUT /stats without the line `cachedStatus = null`.
statsKeepingCache(authHeader, payload) ==
  /\ mounted
  /\ IF ~verifyBotToken(authHeader)
     THEN res' = Unauthorized /\ UNCHANGED botData
     ELSE IF statsPayloadInvalid(payload)
     THEN /\ res' = Response(400,
                      [success |-> FALSE, error |-> "Invalid stats payload"])
          /\ UNCHANGED botData
     ELSE /\ botData' = storeBotData(botData, payload, now)
          /\ res' = Response(200,
                      [success |-> TRUE, message |-> "Stats updated successfully"])
  /\ UNCHANGED <<bot, now, mounted, cachedStatus, cacheTimestamp,
                 healthCheckInterval, timers, inflight>>

\* PUT /stats
stats(authHeader, payload) ==
  /\ mounted
  /\ IF ~verifyBotToken(authHeader)
     THEN /\ res' = Unauthorized
          /\ UNCHANGED <<botData, cachedStatus>>
     ELSE IF statsPayloadInvalid(payload)
     THEN /\ res' = Response(400,
                      [success |-> FALSE, error |-> "Invalid stats payload"])
          /\ UNCHANGED <<botData, cachedStatus>>
     ELSE /\ botData' = storeBotData(botData, payload, now)
          /\ cachedStatus' = Null
          /\ res' = IF ToPrimitiveThrows(payload.guilds) \/ ToPrimitiveThrows(payload.users)
                    THEN Response(500,
                           [success |-> FALSE, error |-> "Failed to update stats"])
                    ELSE Response(200,
                           [success |-> TRUE, message |-> "Stats updated successfully"])
  /\ UNCHANGED <<bot, now, mounted, cacheTimestamp, healthCheckInterval, timers, inflight>>

\* GET /status
getStatus ==
  /\ mounted
  /\ res' = statusResponse(botData, cachedStatus, cacheTimestamp, now)
  /\ IF cacheValid(cachedStatus, cacheTimestamp, now) \/ buildStatusThrows(botData)
     THEN UNCHANGED <<cachedStatus, cacheTimestamp>>
     ELSE /\ cachedStatus' = buildStatus(botData, now)
          /\ cacheTimestamp' = now
  /\ UNCHANGED <<bot, now, mounted, botData, healthCheckInterval, timers, inflight>>

\* POST /command-log
commandLog(authHeader, body) ==
  /\ mounted
  /\ res' = IF ~verifyBotToken(authHeader) THEN Unauthorized
            ELSE IF \/ ToPrimitiveThrows(body.command)
                    \/ ToPrimitiveThrows(body.userId)
                    \/ ToPrimitiveThrows(body.guildId)
            THEN Response(500,
                   [success |-> FALSE, error |-> "Failed to log command"])
            ELSE Response(200,
                   [success |-> TRUE, message |-> "Command logged successfully"])
  /\ UNCHANGED <<bot, now, mounted, botData, cachedStatus, cacheTimestamp,
                 healthCheckInterval, timers, inflight>>

\* POST /disconnect also stamping the health record with the time of the
\* call.
disconnectStampingCheck(authHeader) ==
  /\ mounted
  /\ IF ~verifyBotToken(authHeader)
     THEN /\ res' = Unauthorized
          /\ UNCHANGED <<botData, cachedStatus>>
     ELSE /\ botData' = [botData EXCEPT !.healthStatus = healthOnFailure(now)]
          /\ cachedStatus' = Null
          /\ res' = Response(200,
                      [success |-> TRUE, message |-> "Bot disconnected successfully"])
  /\ UNCHANGED <<bot, now, mounted, cacheTimestamp, healthCheckInterval, timers, inflight>>

\* POST /disconnect also forgetting who the bot is and when it reported.
disconnectClearingIdentity(authHeader) ==
  /\ mounted
  /\ IF ~verifyBotToken(authHeader)
     THEN /\ res' = Unauthorized
          /\ UNCHANGED <<botData, cachedStatus>>
     ELSE /\ botData' = [botData EXCEPT !.healthStatus.ready = FALSE,
                                        !.healthStatus.alive = FALSE,
                                        !.botId = Null, !.username = Null,
                                        !.lastUpdate = Null]
          /\ cachedStatus' = Null
          /\ res' = Response(200,
                      [success |-> TRUE, message |-> "Bot disconnected successfully"])
  /\ UNCHANGED <<bot, now, mounted, cacheTimestamp, healthCheckInterval, timers, inflight>>

\* POST /disconnect assigning the previous ready to alive instead of false.
disconnectShiftingReady(authHeader) ==
  /\ mounted
  /\ IF ~verifyBotToken(authHeader)
     THEN /\ res' = Unauthorized
          /\ UNCHANGED <<botData, cachedStatus>>
     ELSE /\ botData' = [botData EXCEPT !.healthStatus.ready = FALSE,
                                        !.healthStatus.alive = botData.healthStatus.ready]
          /\ cachedStatus' = Null
          /\ res' = Response(200,
                      [success |-> TRUE, message |-> "Bot disconnected successfully"])
  /\ UNCHANGED <<bot, now, mounted, cacheTimestamp, healthCheckInterval, timers, inflight>>

\* POST /disconnect without the line `cachedStatus = null`.
disconnectKeepingCache(authHeader) ==
  /\ mounted
  /\ IF ~verifyBotToken(authHeader)
     THEN res' = Unauthorized /\ UNCHANGED botData
     ELSE /\ botData' = [botData EXCEPT !.healthStatus.ready = FALSE,
                                        !.healthStatus.alive = FALSE]
          /\ res' = Response(200,
                      [success |-> TRUE, message |-> "Bot disconnected successfully"])
  /\ UNCHANGED <<bot, now, mounted, cachedStatus, cacheTimestamp,
                 healthCheckInterval, timers, inflight>>

\* POST /disconnect
disconnect(authHeader) ==
  /\ mounted
  /\ IF ~verifyBotToken(authHeader)
     THEN /\ res' = Unauthorized
          /\ UNCHANGED <<botData, cachedStatus>>
     ELSE /\ botData' = [botData EXCEPT !.healthStatus.ready = FALSE,
                                        !.healthStatus.alive = FALSE]
          /\ cachedStatus' = Null
          /\ res' = Response(200,
                      [success |-> TRUE, message |-> "Bot disconnected successfully"])
  /\ UNCHANGED <<bot, now, mounted, cacheTimestamp, healthCheckInterval, timers, inflight>>

(***************************************************************************)
(* The clock.  Time moves in steps of half a cache TTL and, in the long    *)
(* horizon, in one step that ends half a TTL before the offline timeout,   *)
(* so that both sides of `< CACHE_TTL` and of `< OFFLINE_TIMEOUT` are      *)
(* reached.  Each request of checkBotHealth has a 5 s timeout, so a call   *)
(* has ended before the clock moves on by a step.                          *)
(***************************************************************************)
HalfStep == CACHE_TTL \div 2
LongStep == OFFLINE_TIMEOUT - HalfStep

ShortTimes == { BootTime + a * HalfStep : a \in 0..MaxHalfSteps }
LongTimes == { BootTime + a * HalfStep + b * LongStep : a \in 0..1, b \in 0..1 }

advance(d, times) ==
  /\ mounted
  /\ inflight = <<>>
  /\ now + d \in times
  /\ now' = now + d
  /\ res' = NoResponse
  /\ UNCHANGED <<bot, mounted, botData, cachedStatus, cacheTimestamp,
                 healthCheckInterval, timers, inflight>>

\* The bodies POST /command-log is called with.
CommandBodies ==
  { [command |-> Str("ping"), guildId |-> Str("g1"), userId |-> Str("u1"),
     timestamp |-> Str("1970-01-01T00:00:01.000Z")],
    [command |-> Undefined, guildId |-> Undefined, userId |-> Undefined,
     timestamp |-> Undefined] }

\* The running server over a short horizon, handed the calls it accepts.
Next ==
  \/ createCogworksRoutes
  \/ \E tm \in timers : timerFires(tm)
  \/ \E i \in 1..MaxInFlight, o \in ReadyOutcomes : readyResponse(i, o)
  \/ \E i \in 1..MaxInFlight, o \in LiveOutcomes : liveResponse(i, o)
  \/ \E p \in {q \in Payloads : ~registerPayloadInvalid(q)} : register(GoodHeader, p)
  \/ \E p \in {q \in Payloads : ~statsPayloadInvalid(q)} : stats(GoodHeader, p)
  \/ getStatus
  \/ disconnect(GoodHeader)
  \/ advance(HalfStep, ShortTimes)

Spec == Init /\ [][Next]_vars

\* The ingestion gateway: every route handed every header and payload, in
\* front of a bot that reports ready.
NextIngress ==
  \/ createCogworksRoutes
  \/ \E i \in 1..MaxInFlight, o \in ReadyOutcomes : readyResponse(i, o)
  \/ \E i \in 1..MaxInFlight, o \in LiveOutcomes : liveResponse(i, o)
  \/ \E rq \in IngestRequests : register(rq.authorization, rq.body)
  \/ \E rq \in IngestRequests : stats(rq.authorization, rq.body)
  \/ getStatus
  \/ \E h \in Headers, b \in CommandBodies : commandLog(h, b)
  \/ \E h \in Headers : disconnect(h)
  \/ advance(HalfStep, ShortTimes)

SpecIngress == InitIngress /\ [][NextIngress]_vars

\* The running server over the offline timeout: accepted calls only.
NextOffline ==
  \/ createCogworksRoutes
  \/ \E tm \in timers : timerFires(tm)
  \/ \E i \in 1..MaxInFlight, o \in ReadyOutcomes : readyResponse(i, o)
  \/ \E i \in 1..MaxInFlight, o \in LiveOutcomes : liveResponse(i, o)
  \/ \E p \in {validPayload, minimalPayload} : register(GoodHeader, p)
  \/ \E p \in {validPayload, minimalPayload} : stats(GoodHeader, p)
  \/ getStatus
  \/ disconnect(GoodHeader)
  \/ \E d \in {HalfStep, LongStep} : advance(d, LongTimes)

SpecOffline == Init /\ [][NextOffline]_vars

\* The running server fed any JSON body: a payload field may hold a value
\* that is not of the type BotRegistrationPayload declares.
NextAnyJson ==
  \/ createCogworksRoutes
  \/ \E i \in 1..MaxInFlight, o \in ReadyOutcomes : readyResponse(i, o)
  \/ \E i \in 1..MaxInFlight, o \in LiveOutcomes : liveResponse(i, o)
  \/ \E p \in {validPayload, illTypedPayload} : register(GoodHeader, p)
  \/ \E p \in {validPayload, illTypedPayload} : stats(GoodHeader, p)
  \/ getStatus
  \/ disconnect(GoodHeader)
  \/ advance(HalfStep, ShortTimes)

SpecAnyJson == Init /\ [][NextAnyJson]_vars

\* The prober against a bot whose endpoints keep answering the same.
NextProbe ==
  \/ createCogworksRoutes
  \/ \E tm \in timers : timerFires(tm)
  \/ \E i \in 1..MaxInFlight, o \in ReadyOutcomes : readyResponse(i, o)
  \/ \E i \in 1..MaxInFlight, o \in LiveOutcomes : liveResponse(i, o)
  \/ \E p \in {validPayload} : register(GoodHeader, p)
  \/ getStatus
  \/ advance(HalfStep, ShortTimes)

SpecProbe == InitProbe /\ [][NextProbe]_vars

\* The prober's life cycle: routers created, the timer stopped and started.
NextLifecycle ==
  \/ createCogworksRoutes
  \/ stopHealthCheck
  \/ \E tm \in timers : timerFires(tm)
  \/ \E i \in 1..MaxInFlight, o \in ReadyOutcomes : readyResponse(i, o)
  \/ \E i \in 1..MaxInFlight, o \in LiveOutcomes : liveResponse(i, o)
  \/ getStatus
  \/ disconnect(GoodHeader)
  \/ advance(HalfStep, ShortTimes)

SpecLifecycle == Init /\ [][NextLifecycle]_vars

\* One registration and then silence, over the offline timeout.  The clock
\* also moves by one millisecond, so that a read falls just after the
\* timeout has elapsed.
Tick == 1

ScenarioTimes ==
  { BootTime + a * HalfStep + b * LongStep + c * Tick :
      a \in 0..1, b \in 0..1, c \in 0..1 }

NextScenario ==
  \/ createCogworksRoutes
  \/ \E tm \in timers : timerFires(tm)
  \/ \E i \in 1..MaxInFlight, o \in ReadyOutcomes : readyResponse(i, o)
  \/ \E i \in 1..MaxInFlight, o \in LiveOutcomes : liveResponse(i, o)
  \/ botData.lastUpdate = Null /\ register(GoodHeader, validPayload)
  \/ getStatus
  \/ \E d \in {HalfStep, LongStep, Tick} : advance(d, ScenarioTimes)

SpecScenario == Init /\ [][NextScenario]_vars

\* The conversion of memoryUsage: reports whose memoryUsage runs over byte
\* counts on both sides of a rounding boundary, on a boundary, and the
\* counts of the test suites.
MemorySamples ==
  { 0, 1, 5242, 5243, 10485, 10486, 131072, 393216, 1043333, 1048576,
    52428800, 52434042, 52434043, 104857600, 2147483647 }

memoryPayload(bytes) == [validPayload EXCEPT !.memoryUsage = Num(bytes)]

NextMemory ==
  \/ createCogworksRoutes
  \/ \E i \in 1..MaxInFlight, o \in ReadyOutcomes : readyResponse(i, o)
  \/ \E i \in 1..MaxInFlight, o \in LiveOutcomes : liveResponse(i, o)
  \/ \E b \in MemorySamples : register(GoodHeader, memoryPayload(b))
  \/ \E b \in MemorySamples : stats(GoodHeader, memoryPayload(b))
  \/ getStatus
  \/ advance(HalfStep, ShortTimes)

SpecMemory == InitIngress /\ [][NextMemory]_vars

(***************************************************************************)
(* Properties.                                                             *)
(***************************************************************************)
\* The success responses of the ingestion routes.
RegisterOK == Response(200, [success |-> TRUE, message |-> "Bot registered successfully"])
StatsOK == Response(200, [success |-> TRUE, message |-> "Stats updated successfully"])
DisconnectOK == Response(200, [success |-> TRUE, message |-> "Bot disconnected successfully"])

\* Is r a public status view sent by GET /status?
IsStatusView(r) == r.code = 200 /\ "online" \in DOMAIN r.body

\* What GET /status would answer in the current state.
Served == statusResponse(botData, cachedStatus, cacheTimestamp, now)

\* The part of a view that the ingestion routes determine.
Ingested(view) ==
  [ guilds |-> view.guilds, users |-> view.users, uptime |-> view.uptime,
    memoryUsageMB |-> view.memoryUsageMB, version |-> view.version,
    lastUpdate |-> view.lastUpdate ]

C2_OnlineAtReadTime ==
  IsStatusView(res) =>
    res.body.online =
      (botData.lastUpdate # Null /\ now - botData.lastUpdate.ms < OFFLINE_TIMEOUT)

\* C2: a view sent by GET /status was computed less than CACHE_TTL before
\* the read, and its online is true exactly when the last accepted report
\* was less than OFFLINE_TIMEOUT before that computation (false when no
\* report was ever accepted), whatever disconnect calls came in between.
C2_OnlineAtComputeTime ==
  IsStatusView(res) =>
    /\ now - cacheTimestamp >= 0
    /\ now - cacheTimestamp < CACHE_TTL
    /\ res.body.online =
         (botData.lastUpdate # Null
            /\ cacheTimestamp - botData.lastUpdate.ms < OFFLINE_TIMEOUT)

\* C2 witness: a cached view with online = true is sent when the last
\* report is already OFFLINE_TIMEOUT old.
C2_Witness ==
  /\ IsStatusView(res)
  /\ res.body.online
  /\ botData.lastUpdate # Null
  /\ now - botData.lastUpdate.ms >= OFFLINE_TIMEOUT

\* C3: against a bot whose readiness endpoint fails and whose liveness
\* endpoint answers alive = true, every recorded health reading is
\* {ready: false, alive: true}.
C3_ProbesIndependent ==
  /\ bot = [ready |-> {Rejected}, live |-> {Resolved(Undefined, Bool(TRUE))}]
  /\ botData.healthStatus.lastCheck # Null
  => /\ botData.healthStatus.ready = FALSE
     /\ botData.healthStatus.alive = TRUE

\* A payload from which a field the route requires is absent.
MissingForRegister(p) ==
  p.botId = Undefined \/ p.username = Undefined \/ p.guilds = Undefined
MissingForStats(p) == p.botId = Undefined \/ p.guilds = Undefined

\* C4: a register or stats call with the right token whose payload lacks a
\* required field is answered 400 and changes nothing: the store, the cache
\* and its timestamp are unchanged, no probe is started, and GET /status
\* would answer as it would have before the call.
C4_InvalidPayloadChangesNothing ==
  [][ \A p \in Payloads :
        (\/ MissingForRegister(p) /\ register(GoodHeader, p)
         \/ MissingForStats(p) /\ stats(GoodHeader, p))
        => /\ res'.code = 400
           /\ UNCHANGED <<botData, cachedStatus, cacheTimestamp, inflight>>
           /\ Served' = Served ]_vars

\* C4 witness: a 400 has been sent by a server that holds a registration
\* and a cached view.
C4_Witness ==
  /\ res.code = 400
  /\ botData.lastUpdate # Null
  /\ cachedStatus # Null

\* C5: a register, stats, command-log or disconnect call whose Authorization
\* header is absent, lacks the 'Bearer ' prefix or carries another token is
\* answered 401 and touches nothing: the store, the cache and its timestamp
\* are unchanged and no health probe is started.
C5_BadTokenTouchesNothing ==
  [][ \A h \in Headers \ {GoodHeader} :
        (\/ \E p \in Payloads : register(h, p) \/ stats(h, p)
         \/ \E b \in CommandBodies : commandLog(h, b)
         \/ disconnect(h))
        => /\ res' = Unauthorized
           /\ res'.code = 401
           /\ UNCHANGED <<botData, cachedStatus, cacheTimestamp, inflight, timers>> ]_vars

\* C5 witness: a 401 has been sent by a server that holds a registration,
\* a cached view and no probe in flight.
C5_Witness ==
  /\ res.code = 401
  /\ botData.lastUpdate # Null
  /\ cachedStatus # Null
  /\ inflight = <<>>

\* C6: the GET /status that follows an accepted disconnect answers
\* ready = false, healthStatus.ready = false and healthStatus.alive = false,
\* whatever the readings were and whatever view was cached before.
C6_DisconnectShowsNotReady ==
  [][ res = DisconnectOK /\ getStatus
        => /\ IsStatusView(res')
           /\ res'.body.ready = FALSE
           /\ res'.body.healthStatus.ready = FALSE
           /\ res'.body.healthStatus.alive = FALSE ]_vars

\* C6 witness: a disconnect has been accepted less than a TTL after a view
\* was cached, with a health reading on record.
C6_Witness ==
  /\ res = DisconnectOK
  /\ cacheTimestamp > 0
  /\ now - cacheTimestamp < CACHE_TTL
  /\ botData.healthStatus.lastCheck # Null

\* C7: GET /status never answers with its error response.
C7_StatusNeverErrors ==
  res # Response(500, [online |-> FALSE, error |-> "Status check failed"])

\* C8: every step that changes the bot data leaves the cache empty, so the
\* view GET /status would serve always shows the recorded ready and alive.
C8_EveryWriteInvalidates ==
  /\ Served.code = 200
  /\ Served.body.ready = botData.healthStatus.ready
  /\ Served.body.healthStatus.ready = botData.healthStatus.ready
  /\ Served.body.healthStatus.alive = botData.healthStatus.alive

\* C9: GET /status sends the stored view, and leaves the cache as it is,
\* exactly when an entry exists whose age is below CACHE_TTL; otherwise it
\* computes the view from the current bot data, stores it with the current
\* time and sends it.
C9_HitIffFresh ==
  [][ getStatus =>
        IF cachedStatus # Null /\ now - cacheTimestamp < CACHE_TTL
        THEN /\ res' = Response(200, cachedStatus)
             /\ UNCHANGED <<cachedStatus, cacheTimestamp>>
        ELSE /\ res' = Response(200, buildStatus(botData, now))
             /\ cachedStatus' = buildStatus(botData, now)
             /\ cacheTimestamp' = now ]_vars

\* C9 witness: a view stored half a TTL earlier has been sent from the cache.
C9_Witness ==
  /\ IsStatusView(res)
  /\ res.body = cachedStatus
  /\ cacheTimestamp < now
  /\ now - cacheTimestamp < CACHE_TTL

\* C10: every view sent by GET /status is fully populated: each field holds
\* a defined value of its declared type.
C10_ViewFullyPopulated ==
  IsStatusView(res) =>
    /\ res.body.online \in BOOLEAN
    /\ res.body.ready \in BOOLEAN
    /\ res.body.guilds.t = "number"
    /\ res.body.users.t = "number"
    /\ res.body.uptime.t = "number"
    /\ res.body.memoryUsageMB.t = "number"
    /\ res.body.version.t = "string"
    /\ res.body.healthStatus.ready \in BOOLEAN
    /\ res.body.healthStatus.alive \in BOOLEAN

\* C11: while no register or stats call has been accepted, every answer of
\* GET /status is a 200 view with online = false, guilds = 0, users = 0,
\* uptime = 0, memoryUsageMB = 0, version = "unknown" and lastUpdate the
\* epoch as an ISO string, whatever probes, disconnects and rejected calls
\* have happened.
C11_ColdStartView ==
  botData.lastUpdate = Null =>
    /\ Served.code = 200
    /\ Served.body.online = FALSE
    /\ Served.body.guilds = Num(0)
    /\ Served.body.users = Num(0)
    /\ Served.body.uptime = Num(0)
    /\ Served.body.memoryUsageMB = Num(0)
    /\ Served.body.version = Str("unknown")
    /\ Served.body.lastUpdate = "1970-01-01T00:00:00.000Z"
    /\ IsStatusView(res) => res.body = Served.body

\* C11 witness: GET /status has answered a server that never accepted a
\* report, after a probe found the bot ready and a view had been cached.
C11_Witness ==
  /\ botData.lastUpdate = Null
  /\ IsStatusView(res)
  /\ res.body.healthStatus.ready = TRUE
  /\ cacheTimestamp < now

\* C12 as stated: after one accepted register(guilds = 5), every view sent
\* by GET /status has guilds = 5, online = true while less than
\* OFFLINE_TIMEOUT has elapsed and online = false once more has elapsed.
C12_OnlineByElapsedAtRead ==
  IsStatusView(res) /\ botData.lastUpdate # Null =>
    /\ res.body.guilds = Num(5)
    /\ now - botData.lastUpdate.ms < OFFLINE_TIMEOUT => res.body.online
    /\ now - botData.lastUpdate.ms > OFFLINE_TIMEOUT => ~res.body.online

\* C12: after one accepted register(guilds = 5) and no further report, a
\* GET /status sends a view with guilds = 5 that was computed less than
\* CACHE_TTL before, whose online is true exactly when less than
\* OFFLINE_TIMEOUT had elapsed at that computation and whose healthStatus,
\* when the view is computed for this read, is the recorded one; a step of
\* the clock changes neither the bot data nor the cached view.
C12_RegisterThenSilence ==
  [][ /\ now' # now =>
           /\ botData' = botData
           /\ cachedStatus' = cachedStatus
      /\ getStatus /\ botData.lastUpdate # Null =>
           /\ IsStatusView(res')
           /\ res'.body.guilds = Num(5)
           /\ now - cacheTimestamp' >= 0
           /\ now - cacheTimestamp' < CACHE_TTL
           /\ res'.body.online =
                (cacheTimestamp' - botData.lastUpdate.ms < OFFLINE_TIMEOUT)
           /\ (cachedStatus = Null \/ now - cacheTimestamp >= CACHE_TTL) =>
                /\ res'.body.healthStatus.ready = botData.healthStatus.ready
                /\ res'.body.healthStatus.alive = botData.healthStatus.alive ]_vars

\* C12 witness: more than OFFLINE_TIMEOUT after the registration a freshly
\* computed view reports online = false, guilds = 5 and the ready and alive
\* the prober recorded.
C12_Witness ==
  /\ IsStatusView(res)
  /\ botData.lastUpdate # Null
  /\ now - botData.lastUpdate.ms > OFFLINE_TIMEOUT
  /\ cacheTimestamp = now
  /\ res.body.online = FALSE
  /\ res.body.guilds = Num(5)
  /\ res.body.healthStatus.ready = TRUE
  /\ res.body.healthStatus.alive = TRUE

\* C13: a disconnect that directly follows an accepted disconnect changes
\* nothing: the bot data, the cache and its timestamp, the probes in flight
\* and the timers are as the first call left them, and the answer is the
\* same.
C13_DisconnectIdempotent ==
  [][ res = DisconnectOK /\ disconnect(GoodHeader)
        => /\ res' = DisconnectOK
           /\ UNCHANGED <<botData, cachedStatus, cacheTimestamp, inflight, timers,
                          healthCheckInterval>> ]_vars

\* C13 witness: a disconnect has been accepted by a server that holds a
\* registration and a health reading and has a probe in flight.
C13_Witness ==
  /\ res = DisconnectOK
  /\ botData.lastUpdate # Null
  /\ botData.healthStatus.lastCheck # Null
  /\ inflight # <<>>

\* C14: register and stats decide alike and act alike: for every payload
\* sent with the right token the two routes both accept or both reject, and
\* an accepted register changes what an accepted stats changes and no more
\* (the store overwritten from the payload, the cache emptied, the health
\* record and the prober left alone).
C14_RegisterEqualsStats ==
  [][ \A p \in Payloads :
        /\ stats(GoodHeader, p) /\ res' = StatsOK => ~registerPayloadInvalid(p)
        /\ register(GoodHeader, p) /\ res'.code = 400 => statsPayloadInvalid(p)
        /\ register(GoodHeader, p) /\ res'.code # 400 =>
             /\ botData' = storeBotData(botData, p, now)
             /\ cachedStatus' = Null
             /\ inflight' = inflight ]_vars

\* Identity and metrics of the store, as a payload.
Reported(bd) ==
  [ botId |-> bd.botId, username |-> bd.username, guilds |-> bd.guilds,
    users |-> bd.users, uptime |-> bd.uptime, memoryUsage |-> bd.memoryUsage,
    version |-> bd.version, environment |-> bd.environment ]

\* C15: an accepted register or stats call overwrites identity and metrics
\* with exactly the fields of its payload and sets lastUpdate to its arrival
\* time, whatever the store held and however the new values compare with
\* the old ones (a payload with its required fields is never refused); so
\* the store of a server that has accepted a report always holds one whole
\* payload.
C15_LastWriteWins ==
  [][ /\ \A p \in Payloads :
           (\/ ~MissingForRegister(p) /\ register(GoodHeader, p)
            \/ ~MissingForStats(p) /\ stats(GoodHeader, p))
           => /\ res'.code \notin {400, 401, 500}
              /\ Reported(botData') = p
              /\ botData'.lastUpdate = Date(now)
      /\ botData'.lastUpdate # Null => Reported(botData') \in Payloads ]_vars

\* C15 witness: a payload carrying only the validated fields has replaced,
\* at a later time, what the store held.
C15_Witness ==
  /\ Reported(botData) = minimalPayload
  /\ botData.lastUpdate # Null
  /\ botData.lastUpdate.ms > BootTime
  /\ res = StatsOK

\* Identity and metrics as the module initialises them.
InitialReport ==
  [ botId |-> Null, username |-> Null, guilds |-> Num(0), users |-> Num(0),
    uptime |-> Num(0), memoryUsage |-> Num(0), version |-> Null,
    environment |-> Null ]

\* C16: until a register call is accepted, identity is absent and the
\* metrics keep their initial values: a step other than a register, taken
\* by a server that has accepted no report, leaves them so.
C16_UnsetUntilRegistered ==
  [][ /\ botData.lastUpdate = Null
      /\ ~(\E p \in Payloads : register(GoodHeader, p))
      => Reported(botData') = InitialReport ]_vars

\* The success response of POST /command-log.
CommandLogOK == Response(200, [success |-> TRUE, message |-> "Command logged successfully"])

\* C17: identity, metrics and lastUpdate change only in a register or stats
\* step that carries the right token and a payload with the required
\* fields: a disconnect, a probe's recording, a command log, a GET /status
\* and every rejected call leave all three as they were.
C17_OnlyReportsWriteTheReport ==
  [][ (Reported(botData') # Reported(botData)
         \/ botData'.lastUpdate # botData.lastUpdate)
      => \E p \in Payloads :
            \/ ~MissingForRegister(p) /\ register(GoodHeader, p)
            \/ ~MissingForStats(p) /\ stats(GoodHeader, p) ]_vars

\* C17 witness: a command log has been accepted by a server that still
\* holds the registered payload after a probe recorded a reading.
C17_Witness ==
  /\ res = CommandLogOK
  /\ Reported(botData) = validPayload
  /\ botData.healthStatus.lastCheck # Null
  /\ botData.healthStatus.ready = TRUE

C19_DisconnectStampsCheck ==
  res = DisconnectOK =>
    botData.healthStatus = [ready |-> FALSE, alive |-> FALSE, lastCheck |-> Date(now)]

\* C19: an accepted disconnect sets ready and alive to false and leaves
\* lastCheck, like the rest of the bot data, as it was: the time the last
\* probe run ended, or null if none has.
C19_DisconnectKeepsCheck ==
  [][ disconnect(GoodHeader)
      => /\ res' = DisconnectOK
         /\ botData' =
              [botData EXCEPT !.healthStatus =
                 [ ready |-> FALSE, alive |-> FALSE,
                   lastCheck |-> botData.healthStatus.lastCheck ]] ]_vars

\* C19 witness: a disconnect has been accepted later than the last probe
\* run ended, and the health record still carries that run's time.
C19_Witness ==
  /\ res = DisconnectOK
  /\ botData.healthStatus.lastCheck # Null
  /\ botData.healthStatus.lastCheck.ms < now
  /\ botData.healthStatus.ready = FALSE
  /\ botData.healthStatus.alive = FALSE

\* C20: lastUpdate is null when the module is loaded, and in every step it
\* stays null or becomes a time, never an earlier one and never null
\* again; a register or stats step that is accepted sets it to the time of
\* the call.
C20_LastUpdateMonotonic ==
  /\ botData.lastUpdate = Null
  /\ [][
       /\ botData.lastUpdate # Null
            => /\ botData'.lastUpdate # Null
               /\ botData'.lastUpdate.ms >= botData.lastUpdate.ms
       /\ botData'.lastUpdate # Null => botData'.lastUpdate.ms <= now'
       /\ \A p \in Payloads :
            (\/ ~MissingForRegister(p) /\ register(GoodHeader, p)
             \/ ~MissingForStats(p) /\ stats(GoodHeader, p))
            => botData'.lastUpdate = Date(now)
     ]_vars

\* C20 witness: a report accepted after the clock had advanced is still on
\* record at a later time.
C20_Witness ==
  /\ botData.lastUpdate # Null
  /\ botData.lastUpdate.ms > BootTime
  /\ botData.lastUpdate.ms < now

\* C21: the memoryUsageMB of the view GET /status serves is the stored
\* memoryUsage in bytes divided by 1024 * 1024 and rounded to two decimal
\* places: in hundredths of a megabyte it is the integer nearest to
\* bytes * 100 / 1048576 (a half rounds up); for 52428800 bytes it is
\* within one hundredth of 50.00.  The whole megabytes are split off so
\* that the comparison stays within 32 bits.
C21_MemoryRoundedToHundredths ==
  /\ Served.code = 200
  /\ Served.body.memoryUsageMB.t = "number"
  /\ LET bytes == botData.memoryUsage.n
         hundredths == Served.body.memoryUsageMB.n
         whole == bytes \div BytesPerMB
         rest == bytes % BytesPerMB
         part == hundredths - whole * 100
     IN  /\ 2 * (part * BytesPerMB - rest * 100) > -BytesPerMB
         /\ 2 * (part * BytesPerMB - rest * 100) <= BytesPerMB
         /\ bytes = 52428800 =>
              hundredths - 5000 \in -1..1
  /\ IsStatusView(res) => res.body.memoryUsageMB = Served.body.memoryUsageMB

\* C21 witness: GET /status has answered 50.00 MB for a stored memoryUsage
\* of 52428800 bytes.
C21_Witness ==
  /\ IsStatusView(res)
  /\ botData.memoryUsage = Num(52428800)
  /\ res.body.memoryUsageMB = Num(5000)
  /\ res.body.guilds = Num(5)

\* C22: a probe failure is absorbed and the timer keeps running.  Every
\* run of checkBotHealth, whether its requests succeed or fail, ends by
\* recording a health reading stamped with the current time, a failed
\* request as {ready: false, alive: false}, and leaves the timer and its
\* handle as they were; while the prober is not stopped its timer stays
\* armed, never further than one interval ahead, and each of its ticks
\* starts a new run and re-arms it one interval later.
C22_ProbeFailureAbsorbed ==
  /\ [](healthCheckInterval # Null =>
          \E tm \in timers :
            /\ tm.id = healthCheckInterval.id
            /\ tm.due <= now + HEALTH_CHECK_INTERVAL)
  /\ [][
       /\ Len(inflight') < Len(inflight) =>
            /\ botData'.healthStatus.lastCheck = Date(now)
            /\ botData'.healthStatus.ready \in BOOLEAN
            /\ botData'.healthStatus.alive \in BOOLEAN
            /\ UNCHANGED <<timers, healthCheckInterval, mounted>>
       /\ (\E i \in 1..Len(inflight) :
              readyResponse(i, Rejected) \/ liveResponse(i, Rejected)) =>
            /\ botData'.healthStatus = healthOnFailure(now)
            /\ Len(inflight') < Len(inflight)
       /\ \A tm \in timers :
            timerFires(tm) =>
              /\ Len(inflight') = Len(inflight) + 1
              /\ inflight'[Len(inflight')].pc = "ready"
              /\ [tm EXCEPT !.due = now + HEALTH_CHECK_INTERVAL] \in timers'
     ]_vars

\* C22 witness: one interval after a probe run recorded a failure, a tick
\* of the timer has started the next run.
C22_Witness ==
  /\ healthCheckInterval # Null
  /\ inflight # <<>>
  /\ inflight[1].caller = "timer"
  /\ now - BootTime >= HEALTH_CHECK_INTERVAL
  /\ botData.healthStatus.lastCheck # Null
  /\ botData.healthStatus.lastCheck.ms < now
  /\ botData.healthStatus.ready = FALSE
  /\ botData.healthStatus.alive = FALSE

\* C23: every run of checkBotHealth issues both the readiness and the
\* liveness request, and neither waits on the other: no run is ever
\* suspended on its readiness request with the liveness request still to
\* be sent, and a run ends only once its liveness request has been sent
\* and has settled.
C23_BothRequestsIssuedTogether ==
  [][ /\ \A i \in 1..Len(inflight') : inflight'[i].pc # "ready"
      /\ Len(inflight') < Len(inflight) =>
           \E i \in 1..Len(inflight) :
             /\ inflight[i].pc = "live"
             /\ inflight' = RemoveAt(inflight, i) ]_vars

C25_StopIsIdempotentAndFinal ==
  /\ [](healthCheckInterval = Null => timers = {})
  /\ [][
       /\ stopHealthCheck =>
            /\ healthCheckInterval' = Null
            /\ timers' = {}
            /\ res' = NoResponse
            /\ UNCHANGED <<now, mounted, botData, cachedStatus, cacheTimestamp,
                           inflight, bot>>
       /\ healthCheckInterval = Null /\ stopHealthCheck =>
            UNCHANGED <<now, mounted, botData, cachedStatus, cacheTimestamp,
                        inflight, bot, timers, healthCheckInterval>>
       /\ (\E tm \in timers : timerFires(tm)) => healthCheckInterval # Null
       /\ healthCheckInterval = Null /\ healthCheckInterval' # Null =>
            createCogworksRoutes
     ]_vars

\* C25 witness: the prober was stopped while a health check was in flight,
\* and a full interval after the start no timer is left to tick.
C25_Witness ==
  /\ mounted
  /\ healthCheckInterval = Null
  /\ timers = {}
  /\ now - BootTime >= HEALTH_CHECK_INTERVAL
  /\ botData.healthStatus.lastCheck # Null
  /\ inflight # <<>>

\* C26: starting the prober starts one health check at once, before the
\* first tick.  The createCogworksRoutes step that arms the timer, one
\* interval ahead, also sends the readiness request of a new run; so once
\* that run has ended, and at the latest when a tick is due or the clock
\* has moved, a reading is on record (lastCheck is present).
C26_StartProbesImmediately ==
  /\ [](mounted /\ (inflight = <<>> \/ now > BootTime)
          => botData.healthStatus.lastCheck # Null)
  /\ [](\A tm \in timers :
          now >= tm.due => botData.healthStatus.lastCheck # Null)
  /\ [][
       healthCheckInterval = Null /\ createCogworksRoutes =>
         /\ Len(inflight') = Len(inflight) + 1
         /\ inflight'[Len(inflight')].pc = "ready"
         /\ inflight'[Len(inflight')].caller = "timer"
         /\ \E tm \in timers' \ timers :
              /\ tm.due = now + HEALTH_CHECK_INTERVAL
              /\ healthCheckInterval' = Timeout(tm.id)
     ]_vars

\* C26 witness: at boot time, with the first tick still a full interval
\* ahead, the initial health check has ended and its reading is on record.
C26_Witness ==
  /\ now = BootTime
  /\ inflight = <<>>
  /\ botData.healthStatus.lastCheck = Date(BootTime)
  /\ botData.healthStatus.ready = TRUE
  /\ \E tm \in timers : tm.due = now + HEALTH_CHECK_INTERVAL

\* C27: the tracker has no terminal state.  Whatever the server holds (no
\* report, a registration, later stats, a disconnect, a report older than
\* the offline timeout), a register call with the right token and a valid
\* payload can be taken and is accepted: identity and metrics become the
\* payload, lastUpdate the time of the call, the cache is emptied and the
\* view GET /status would serve shows online = true and the payload's
\* guilds; the GET /status that follows the answer of register shows
\* online = true, and so does every view served while the last report is
\* younger than the offline timeout.
C27_RegisterAlwaysAccepted ==
  /\ [](mounted /\ Len(inflight) < MaxInFlight
          => ENABLED register(GoodHeader, validPayload))
  /\ [](botData.lastUpdate # Null /\ now - botData.lastUpdate.ms < OFFLINE_TIMEOUT
          => Served.code = 200 /\ Served.body.online)
  /\ [][
       /\ \A p \in {validPayload, minimalPayload} :
            register(GoodHeader, p) =>
              /\ res' = NoResponse
              /\ Reported(botData') = p
              /\ botData'.lastUpdate = Date(now)
              /\ cachedStatus' = Null
              /\ Served'.code = 200
              /\ Served'.body.online
              /\ Served'.body.guilds = p.guilds
       /\ res = RegisterOK /\ getStatus =>
            /\ IsStatusView(res')
            /\ res'.body.online
            /\ Ingested(res'.body) = Ingested(buildStatus(botData, now))
     ]_vars

\* C27 witness: a register call has just been accepted, a full offline
\* timeout after the start, by a server whose health record says not ready
\* and not alive; its payload has replaced what the store held.
C27_Witness ==
  /\ inflight # <<>>
  /\ inflight[1].caller = "register"
  /\ now - BootTime >= OFFLINE_TIMEOUT
  /\ botData.lastUpdate = Date(now)
  /\ Reported(botData) = minimalPayload
  /\ botData.healthStatus.lastCheck # Null
  /\ botData.healthStatus.ready = FALSE
  /\ botData.healthStatus.alive = FALSE

\* C28: the result of a health check is never applied stale.  In
\* particular a run of checkBotHealth that was in flight when a disconnect
\* was accepted, and ends directly after it, does not turn ready or alive
\* back to true.
C28_NoStaleProbeResult ==
  [][ res = DisconnectOK /\ Len(inflight') < Len(inflight)
      => /\ botData'.healthStatus.ready = FALSE
         /\ botData'.healthStatus.alive = FALSE ]_vars

\* C29: at most one health-check timer exists at any time.  The runtime
\* holds a timer exactly when the module holds its handle, and never more
\* than one; a call of createCogworksRoutes creates a timer, with its
\* initial check, only when no handle is held and otherwise leaves timers
\* and health checks as they are; so after stopHealthCheck the next call
\* creates exactly one again.
C29_AtMostOneTimer ==
  /\ [](Cardinality(timers) <= 1)
  /\ [](IF healthCheckInterval = Null THEN timers = {}
        ELSE \A tm \in timers : tm.id = healthCheckInterval.id)
  /\ [](healthCheckInterval # Null => timers # {})
  /\ [][
       createCogworksRoutes =>
         IF healthCheckInterval = Null
         THEN /\ Cardinality(timers') = 1
              /\ healthCheckInterval' # Null
              /\ Len(inflight') = Len(inflight) + 1
         ELSE UNCHANGED <<timers, healthCheckInterval, inflight>>
     ]_vars

\* C29 witness: the prober was stopped and started again half an interval
\* after the start, and the one timer that exists is the new one.
C29_Witness ==
  /\ healthCheckInterval # Null
  /\ Cardinality(timers) = 1
  /\ \E tm \in timers : tm.due = BootTime + HalfStep + HEALTH_CHECK_INTERVAL

\* C30: whenever a cache entry is present, fresh or expired, its guilds,
\* users, uptime, memoryUsageMB, version and lastUpdate are those derived
\* from the bot data now in the store, because every step that changes
\* identity, metrics or lastUpdate leaves the cache empty.
C30_CacheMatchesReport ==
  /\ [](cachedStatus # Null =>
          /\ cachedStatus.guilds = botData.guilds
          /\ cachedStatus.users = botData.users
          /\ cachedStatus.uptime = botData.uptime
          /\ cachedStatus.memoryUsageMB = memoryUsageMB(botData.memoryUsage)
          /\ cachedStatus.version =
               (IF botData.version \in {Null, Undefined, Str("")}
                THEN Str("unknown") ELSE botData.version)
          /\ cachedStatus.lastUpdate =
               toISOString(IF botData.lastUpdate = Null THEN 0
                           ELSE botData.lastUpdate.ms))
  /\ [][ (Reported(botData') # Reported(botData)
            \/ botData'.lastUpdate # botData.lastUpdate)
         => cachedStatus' = Null ]_vars

\* C30 witness: an entry cached after the latest report, itself later than
\* the start, has outlived its TTL and still carries that report's values.
C30_Witness ==
  /\ cachedStatus # Null
  /\ botData.lastUpdate # Null
  /\ botData.lastUpdate.ms > BootTime
  /\ cacheTimestamp >= botData.lastUpdate.ms
  /\ now - cacheTimestamp >= CACHE_TTL
  /\ cachedStatus.guilds = Num(0)
  /\ cachedStatus.version = Str("unknown")

====
